---- MODULE Spec2Model ----
(***************************************************************************)
(* The periodic task scheduler of ikspread (class Scheduler), as a state   *)
(* machine.  One action per public operation, timer tick or promise        *)
(* continuation; every action runs one synchronous segment of the code     *)
(* from its start to the next await (or to its return).                    *)
(***************************************************************************)
EXTENDS Integers, Sequences, FiniteSets, TLC

\* ------------------------------------------------------------------ bounds
\* cycles that may reach the end-of-cycle update in one behaviour
MaxCycles == 2
\* cycles that may be in flight (suspended in a task) at the same time
MaxInFlight == 2
\* enableTask/disableTask/clearHistory calls in one behaviour
MaxToggles == 1
\* registerTask/unregisterTask calls in one behaviour
MaxRegistryCalls == 3
\* handlers subscribed at the same time by on() calls of the caller
MaxHandlers == 3
\* days around the turn of the year at which isMarketOpen is asked
MaxDays == 11
\* setFeatureEnabled calls in one behaviour
MaxFeatureCalls == 2
\* arrays of results created in one behaviour
MaxArrays == 3
\* snapshots the caller holds
MaxSnapshots == 2
\* entries the caller's own pushes may bring an array to
MaxEntries == 3

\* ------------------------------------------------------- program constants
\* "Keep only last 100 results"
HistoryLimit == 100
\* this.config.maxConsecutiveErrors ?? 10
DefaultMaxErrors == 10

\* ------------------------------------------------------------ task objects
\* The ScheduledTask objects a caller may register.  An absent optional
\* field (priority?: number) is the empty sequence, a present one <<value>>.
Objs == {"T1", "T2", "T3"}

\* The task objects of a TradingOrchestrator: the three its constructor
\* creates, and the custom task of its caller.
OrchestratorObjs == {"monitor", "scanner", "roll", "custom"}

\* a second task object with the id of T1, to register in its place
ReplacementObjs == {"T1b"}

AllObjs == Objs \cup OrchestratorObjs \cup ReplacementObjs

\* the tasks registerDefaultTasks creates
DefaultObjs == {"monitor", "scanner", "roll"}

\* a default task body without the dry-run branch: it goes on to the broker
\* or the data source
bodyLive(o, dryRun) == <<"log", "external">>

\* What monitorPositions, scanForEntries and manageRolls do, as the effects
\* in program order: in dry-run mode they log and return, otherwise they log
\* that the feature is not yet implemented.
body(o, dryRun) ==
  IF dryRun THEN <<"log", "log", "return">> ELSE <<"log", "log">>

TaskId(o) ==
  CASE o = "T1" -> "A" [] o = "T2" -> "B" [] o = "T3" -> "C"
    [] o = "T1b" -> "A"
    [] o = "monitor" -> "position-monitor"
    [] o = "scanner" -> "entry-scanner"
    [] o = "roll" -> "roll-manager"
    [] o = "custom" -> "custom-analytics"

Priority(o) ==
  CASE o = "T1" -> <<1>> [] o = "T2" -> <<0>> [] o = "T3" -> <<>>
    [] o = "T1b" -> <<2>>
    [] o = "monitor" -> <<100>> [] o = "scanner" -> <<50>>
    [] o = "roll" -> <<75>> [] o = "custom" -> <<25>>

RequiresMarketOpen(o) == o \in {"T1", "T3", "monitor", "scanner", "roll"}

\* What execute() throws when it throws: an Error, or a value that a template
\* literal cannot convert to a string (a Symbol, an object without toString).
Throws(o) == IF o = "T3" THEN "symbol" ELSE "error"

Slots == 1 .. MaxInFlight + 1

NoResult == [task |-> "none", success |-> TRUE]

\* a runTasks() invocation: where it stands (pc), who called it (kind), its
\* enabledTasks array (sel), the loop position (idx), its results and hasError
\* locals, and the result executeTask is about to hand back (pending).
\* The other fields record what the invocation did: the tasks the per-task
\* market check skipped, the tasks whose execute() threw, whether the update
\* of this.state was applied, what the cycle-level market check read, the
\* Map's order when the array was taken, why runTasks returned, how many
\* tasks of the array were neither executed nor skipped when it returned, and
\* the events its executeTask calls emitted, in order.
IdleCycle ==
  [pc |-> "idle", kind |-> "none", sel |-> <<>>, idx |-> 0, results |-> <<>>,
   hasError |-> FALSE, pending |-> NoResult, skipped |-> {}, threw |-> {},
   updated |-> FALSE, gateOpen |-> TRUE, order |-> <<>>, why |-> "none",
   left |-> 0, events |-> <<>>]

VARIABLES
  config,        \* this.config (never assigned after the constructor)
  state,         \* this.state: isRunning, counters, history, run times set
  intervalId,    \* this.intervalId is defined (its timer is armed)
  leaked,        \* a timer is armed that this.intervalId no longer names
  tasks,         \* this.tasks: the Map's values in insertion order
  enabled,       \* the enabled field of each task object
  cycles,        \* the runTasks() invocations, one per slot
  marketOpen,    \* what isMarketOpen(config.marketHours, new Date()) answers now
  objs,          \* the task objects the caller has created
  throwers,      \* the task objects whose execute() may throw
  limits,        \* the bounds of this behaviour: cycles, in flight, calls
  calls,         \* registerTask/unregisterTask calls made so far
  toggles,       \* enableTask/disableTask/clearHistory calls made so far
  emitted,       \* the events emitted by the last operation, in order
  ended,         \* the cycle that returned or settled its caller in the last operation
  begun,         \* who began a cycle in the last operation, if anyone
  before,        \* this.state and tripped at the entry of the last operation
  errorEvents,   \* number of `error` events emitted so far
  tripped,       \* the circuit breaker fired and start() was not called since
  streak,        \* completed cycles with a failed result since the last one without
  firstReg,      \* task ids in the order of their first registerTask call
  orchestrator,  \* the TradingOrchestrator around the scheduler, if there is one
  eventHandlers, \* this.eventHandlers: the subscribed handlers, in order
  subscribed,    \* this.eventHandlers when the last emit() began
  delivered,     \* the handlers the last emit() called, in call order
  marketHours,   \* the MarketHoursConfig handed to isMarketOpen
  currentTime,   \* the Date handed to isMarketOpen, in local time
  status,        \* the MarketStatus isMarketOpen returned
  heap,          \* the arrays of results: the content at each address
  allocated,     \* the number of arrays created so far
  historyRef,    \* this.state.history: the address of its array
  snapshots      \* the values getState() and getHistory() gave the caller

\* the scheduler and its cycles
schedulerVars ==
  <<config, state, intervalId, leaked, tasks, enabled, cycles, marketOpen,
    objs, throwers, limits, calls, toggles, emitted, ended, begun, before, errorEvents, tripped,
    streak, firstReg, orchestrator>>

\* the subscriptions and the delivery of one event
handlerVars == <<eventHandlers, subscribed, delivered>>

\* one call of isMarketOpen
hoursVars == <<marketHours, currentTime, status>>

\* the arrays behind this.state.history and behind the caller's snapshots
snapshotVars == <<heap, allocated, historyRef, snapshots>>

vars == <<schedulerVars, handlerVars, hoursVars, snapshotVars>>

\* The whole program state as one value: the operations below are functions
\* from world to world, composed as the code composes its calls.
World ==
  [state |-> state, intervalId |-> intervalId, leaked |-> leaked,
   tasks |-> tasks, enabled |-> enabled, cycles |-> cycles,
   marketOpen |-> marketOpen, calls |-> calls, toggles |-> toggles,
   emitted |-> emitted,
   ended |-> ended, begun |-> begun, before |-> before,
   errorEvents |-> errorEvents, tripped |-> tripped, streak |-> streak,
   firstReg |-> firstReg, orchestrator |-> orchestrator]

Becomes(w) ==
  /\ state' = w.state
  /\ intervalId' = w.intervalId
  /\ leaked' = w.leaked
  /\ tasks' = w.tasks
  /\ enabled' = w.enabled
  /\ cycles' = w.cycles
  /\ marketOpen' = w.marketOpen
  /\ calls' = w.calls
  /\ toggles' = w.toggles
  /\ emitted' = w.emitted
  /\ ended' = w.ended
  /\ begun' = w.begun
  /\ before' = w.before
  /\ errorEvents' = w.errorEvents
  /\ tripped' = w.tripped
  /\ streak' = w.streak
  /\ firstReg' = w.firstReg
  /\ orchestrator' = w.orchestrator
  /\ UNCHANGED <<config, objs, throwers, limits>>
  /\ UNCHANGED <<handlerVars, hoursVars, snapshotVars>>

\* What the last operation is remembered by, at the entry of an operation.
Snapshot(w) ==
  [state |-> w.state, tripped |-> w.tripped, tasks |-> w.tasks,
   enabled |-> w.enabled]

Entry ==
  [World EXCEPT !.emitted = <<>>, !.ended = [IdleCycle EXCEPT !.pc = "none"],
                !.begun = "none", !.before = Snapshot(World)]

\* ------------------------------------------------------------------ helpers
Min(S) == CHOOSE x \in S : \A y \in S : x <= y

Range(s) == {s[i] : i \in 1 .. Len(s)}

Event(type, taskId, taskName) ==
  [type |-> type, taskId |-> taskId, taskName |-> taskName]

\* private emit(event): every handler is called inside try/catch
emit(w, ev) == [w EXCEPT !.emitted = Append(@, ev)]

\* this.config.maxConsecutiveErrors ?? 10
maxErrors ==
  IF config.maxConsecutiveErrors = <<>> THEN DefaultMaxErrors
  ELSE config.maxConsecutiveErrors[1]

\* this.config.respectMarketHours && this.config.marketHours
Gating == config.respectMarketHours /\ config.marketHours

\* (x.priority ?? 0)
PriorityOrZero(o) == IF Priority(o) = <<>> THEN 0 ELSE Priority(o)[1]

\* a comparator that sorts by ascending priority
compareAscending(a, b) == PriorityOrZero(a) - PriorityOrZero(b)

\* the comparator of .sort(): negative when a goes before b
compare(a, b) == PriorityOrZero(b) - PriorityOrZero(a)

\* Array.prototype.sort with a comparator: a stable sort (insertion sort).
RECURSIVE insert(_, _)
insert(s, x) ==
  IF s = <<>> THEN <<x>>
  ELSE IF compare(s[Len(s)], x) <= 0 THEN Append(s, x)
  ELSE Append(insert(SubSeq(s, 1, Len(s) - 1), x), s[Len(s)])

RECURSIVE sort(_)
sort(s) ==
  IF s = <<>> THEN <<>> ELSE insert(sort(SubSeq(s, 1, Len(s) - 1)), s[Len(s)])

RECURSIVE filterEnabled(_, _)
filterEnabled(s, en) ==
  IF s = <<>> THEN <<>>
  ELSE IF en[s[1]] THEN <<s[1]>> \o filterEnabled(Tail(s), en)
  ELSE filterEnabled(Tail(s), en)

\* the array taken without the .sort(): the Map's insertion order
enabledTasksUnsorted(w) == filterEnabled(w.tasks, w.enabled)

\* Array.from(this.tasks.values()).filter(task => task.enabled).sort(...)
enabledTasks(w) == sort(filterEnabled(w.tasks, w.enabled))

\* slice(0, 100): the newest entries are the ones dropped
trimHistoryOldest(h) ==
  IF Len(h) > HistoryLimit THEN SubSeq(h, 1, HistoryLimit) ELSE h

\* this.state.history.slice(-100) when longer than 100
trimHistory(h) ==
  IF Len(h) > HistoryLimit THEN SubSeq(h, Len(h) - HistoryLimit + 1, Len(h))
  ELSE h

\* ---------------------------------------------------------------- stop()
\* stop() without its clearInterval
stopKeepsTimer(w) ==
  IF ~w.state.isRunning THEN w
  ELSE emit([w EXCEPT !.state.isRunning = FALSE], Event("stop", "none", "none"))

stop(w) ==
  IF ~w.state.isRunning THEN w
  ELSE
    LET w1 == IF w.intervalId THEN [w EXCEPT !.intervalId = FALSE] ELSE w
        w2 == [w1 EXCEPT !.state.isRunning = FALSE]
    IN emit(w2, Event("stop", "none", "none"))

\* ------------------------------------------------------------- runTasks()
\* the tasks of the enabledTasks array neither executed nor skipped so far
unfinished(cy) ==
  Range(cy.sel) \ ({cy.results[i].task : i \in 1 .. Len(cy.results)} \cup cy.skipped)

failed(results) == {i \in 1 .. Len(results) : ~results[i].success}

\* What is left of a runTasks() invocation that returned: its promise.
returned(cy) ==
  [IdleCycle EXCEPT !.pc = "returned", !.kind = cy.kind, !.why = cy.why,
                    !.updated = cy.updated, !.left = cy.left]

\* The cycle of slot c returns.  The caller of runNow() is resumed later, by
\* another continuation; nobody waits for a cycle of the timer or of start().
return(w, c, why) ==
  LET cy == [w.cycles[c] EXCEPT !.pc = "returned", !.why = why,
                                !.left = Cardinality(unfinished(w.cycles[c]))]
  IN IF cy.kind = "runNow"
     THEN [w EXCEPT !.cycles[c] = returned(cy), !.ended = cy]
     ELSE [w EXCEPT !.cycles[c] = IdleCycle, !.ended = cy]

\* a count that a cycle without a failure leaves as it is
trackErrorsKeeps(n, hasError) == IF hasError THEN n + 1 ELSE n

\* "Track consecutive errors"
trackErrors(n, hasError) == IF hasError THEN n + 1 ELSE 0

\* the threshold reached one cycle early
shouldStopEarly(n) == n + 1 >= maxErrors

\* the threshold compared with > instead of >=
shouldStopLate(n) == n > maxErrors

\* "Check if we should stop due to errors"
shouldStop(n) == n >= maxErrors

\* "Update state" to the end of runTasks
finish(w, c) ==
  LET cy == w.cycles[c]
      w1 == [w EXCEPT !.state.totalRuns = @ + 1,
                      !.state.history = trimHistory(@ \o cy.results),
                      !.cycles[c].updated = TRUE,
                      !.streak = IF failed(cy.results) = {} THEN 0 ELSE @ + 1]
      w2 == [w1 EXCEPT !.state.consecutiveErrors = trackErrors(@, cy.hasError)]
      w3 == IF shouldStop(w2.state.consecutiveErrors)
            THEN [emit(stop(w2), Event("error", "none", "none"))
                    EXCEPT !.errorEvents = @ + 1, !.tripped = TRUE]
            ELSE w2
  IN return(w3, c, "done")

\* the loop calling executeTask without await: the next task of the array
\* starts in the same step
executeTaskNoAwait(w, c, j) ==
  LET sel == w.cycles[c].sel
      o == sel[j]
      w1 == emit(w, Event("task_start", TaskId(o), o))
      w2 == [w1 EXCEPT !.cycles[c].pc = "exec",
                       !.cycles[c].idx = j,
                       !.cycles[c].events = Append(@, <<"task_start", o>>),
                       !.cycles[c].pending = [task |-> o, success |-> TRUE]]
  IN IF j = Len(sel) THEN w2
     ELSE [emit(w2, Event("task_start", TaskId(sel[j + 1]), sel[j + 1]))
             EXCEPT !.cycles[c].events = Append(@, <<"task_start", sel[j + 1]>>)]

\* executeTask(task) up to its await task.execute()
executeTask(w, c, j) ==
  LET o == w.cycles[c].sel[j]
      w1 == emit(w, Event("task_start", TaskId(o), o))
  IN [w1 EXCEPT !.cycles[c].pc = "exec",
                !.cycles[c].idx = j,
                !.cycles[c].events = Append(@, <<"task_start", o>>),
                !.cycles[c].pending = [task |-> o, success |-> TRUE]]

\* a loop that relies on the check made when the cycle began
skipTaskNoRecheck(w, o) == FALSE

\* task.requiresMarketOpen && respectMarketHours && marketHours && !isOpen
skipTask(w, o) == RequiresMarketOpen(o) /\ Gating /\ ~w.marketOpen

\* The for loop of runTasks from the task after position cy.idx: skip the
\* tasks the per-task market check rejects, start the first other one, or
\* fall through to the update when none is left.
loop(w, c) ==
  LET cy == w.cycles[c]
      rest == {j \in (cy.idx + 1) .. Len(cy.sel) : ~skipTask(w, cy.sel[j])}
      upto == IF rest = {} THEN Len(cy.sel) ELSE Min(rest) - 1
      w1 == [w EXCEPT !.cycles[c].skipped =
                         @ \cup {cy.sel[j] : j \in (cy.idx + 1) .. upto},
                      !.cycles[c].idx = upto]
  IN IF rest = {} THEN finish(w1, c) ELSE executeTask(w1, c, Min(rest))

\* runTasks() returning on the closed market without its market_closed event
runTasksSilent(w, c, kind, m) ==
  LET w0 == [w EXCEPT !.state.lastRunTime = TRUE,
                      !.state.nextRunTime = TRUE,
                      !.cycles[c] = [IdleCycle EXCEPT !.kind = kind,
                                                      !.gateOpen = w.marketOpen],
                      !.begun = kind]
      sel == enabledTasks(w0)
      w1 == [w0 EXCEPT !.cycles[c].sel = sel, !.cycles[c].order = w.tasks,
                       !.marketOpen = m]
  IN IF Gating /\ ~w.marketOpen
     THEN return(w0, c, "market_closed")
     ELSE IF sel = <<>> THEN return(w0, c, "no_tasks")
     ELSE loop(w1, c)

\* runTasks() counting the cycle before the check for an empty array
runTasksCountsEmpty(w, c, kind, m) ==
  LET w0 == [w EXCEPT !.state.lastRunTime = TRUE,
                      !.state.nextRunTime = TRUE,
                      !.cycles[c] = [IdleCycle EXCEPT !.kind = kind,
                                                      !.gateOpen = w.marketOpen],
                      !.begun = kind]
      sel == enabledTasks(w0)
      w1 == [w0 EXCEPT !.cycles[c].sel = sel, !.cycles[c].order = w.tasks,
                       !.marketOpen = m]
  IN IF Gating /\ ~w.marketOpen
     THEN return(emit(w0, Event("market_closed", "none", "none")), c,
                 "market_closed")
     ELSE IF sel = <<>>
     THEN return([w0 EXCEPT !.state.totalRuns = @ + 1], c, "no_tasks")
     ELSE loop(w1, c)

\* runTasks() with a single-flight guard: it returns at once while another
\* cycle is in flight
runTasksSingleFlight(w, c, kind, m) ==
  LET w0 == [w EXCEPT !.state.lastRunTime = TRUE,
                      !.state.nextRunTime = TRUE,
                      !.cycles[c] = [IdleCycle EXCEPT !.kind = kind,
                                                      !.gateOpen = w.marketOpen],
                      !.begun = kind]
      sel == enabledTasks(w0)
      w1 == [w0 EXCEPT !.cycles[c].sel = sel, !.cycles[c].order = w.tasks,
                       !.marketOpen = m]
  IN IF \E d \in Slots : w.cycles[d].pc \in {"exec", "settled"}
     THEN return(w0, c, "busy")
     ELSE IF Gating /\ ~w.marketOpen
     THEN return(emit(w0, Event("market_closed", "none", "none")), c,
                 "market_closed")
     ELSE IF sel = <<>> THEN return(w0, c, "no_tasks")
     ELSE loop(w1, c)

\* runTasks() from its entry to its first await or its return, in slot c.
\* m is the market status at the per-task checks, which read the clock again.
runTasks(w, c, kind, m) ==
  LET w0 == [w EXCEPT !.state.lastRunTime = TRUE,
                      !.state.nextRunTime = TRUE,
                      !.cycles[c] = [IdleCycle EXCEPT !.kind = kind,
                                                      !.gateOpen = w.marketOpen],
                      !.begun = kind]
      sel == enabledTasks(w0)
      w1 == [w0 EXCEPT !.cycles[c].sel = sel, !.cycles[c].order = w.tasks,
                       !.marketOpen = m]
  IN IF Gating /\ ~w.marketOpen
     THEN return(emit(w0, Event("market_closed", "none", "none")), c,
                 "market_closed")
     ELSE IF sel = <<>> THEN return(w0, c, "no_tasks")
     ELSE loop(w1, c)

\* What a later read of the clock in the same synchronous segment may see:
\* the market as it is, or the market just closed or opened.
MarketReads == IF Gating THEN BOOLEAN ELSE {marketOpen}

\* ------------------------------------------------------------ bounds of use
InFlight(w) == {c \in Slots : w.cycles[c].pc \in {"exec", "settled"}}

FreeSlots(w) == {c \in Slots : w.cycles[c].pc = "idle"}

CanBegin(w) ==
  /\ FreeSlots(w) # {}
  /\ Cardinality(InFlight(w)) < limits.inflight
  /\ w.state.totalRuns + Cardinality(InFlight(w)) < limits.cycles

\* --------------------------------------------------------------- start()
\* a start() that begins with a clean count of consecutive errors
startResets(w, m) ==
  IF w.state.isRunning THEN w
  ELSE
    LET w1 == emit([w EXCEPT !.state.isRunning = TRUE, !.tripped = FALSE,
                             !.state.consecutiveErrors = 0],
                   Event("start", "none", "none"))
        w2 == IF config.runOnStart
              THEN runTasks(w1, Min(FreeSlots(w1)), "start", m)
              ELSE w1
    IN [w2 EXCEPT !.intervalId = TRUE, !.leaked = @ \/ w2.intervalId]

start(w, m) ==
  IF w.state.isRunning THEN w
  ELSE
    LET w1 == emit([w EXCEPT !.state.isRunning = TRUE, !.tripped = FALSE],
                   Event("start", "none", "none"))
        w2 == IF config.runOnStart
              THEN runTasks(w1, Min(FreeSlots(w1)), "start", m)
              ELSE w1
    IN [w2 EXCEPT !.intervalId = TRUE, !.leaked = @ \/ w2.intervalId]

Start ==
  /\ config.runOnStart /\ ~state.isRunning => CanBegin(World)
  /\ \E m \in MarketReads : Becomes(start(Entry, m))

Stop == Becomes(stop(Entry))

\* the setInterval callback
Tick ==
  /\ intervalId \/ leaked
  /\ CanBegin(World)
  /\ \E m \in MarketReads :
       Becomes(runTasks(Entry, Min(FreeSlots(World)), "timer", m))

\* runNow() up to its await this.runTasks()
RunNow ==
  /\ CanBegin(World)
  /\ \E m \in MarketReads :
       Becomes(runTasks(Entry, Min(FreeSlots(World)), "runNow", m))

\* runNow() without its await: the caller goes on while the cycle runs
awaitedNot(cy) == cy.pc # "idle"

\* await this.runTasks() in runNow(): the caller goes on once runTasks returned
awaited(cy) == cy.pc = "returned"

runNowResolves(w, c) ==
  LET cy == w.cycles[c] IN
  [w EXCEPT !.cycles[c] = IdleCycle,
            !.ended = [cy EXCEPT !.pc = IF cy.why = "rejected" THEN "rejected"
                                        ELSE "resolved",
                                 !.left = IF cy.pc = "returned" THEN cy.left
                                          ELSE Cardinality(unfinished(cy))]]

RunNowResolves ==
  \E c \in Slots :
    /\ cycles[c].kind = "runNow"
    /\ awaited(cycles[c])
    /\ Becomes(runNowResolves(Entry, c))

\* `${error}` and String(error) in the catch branch return a string
printable(v) == v = "error"

\* executeTask after await task.execute(): the try branch or the catch branch.
\* The catch branch converts the thrown value to a string before it emits
\* task_error; when the conversion throws, that exception leaves executeTask
\* and, through the await of the loop, runTasks, whose promise rejects.
settle(w, c, ok) ==
  LET cy == w.cycles[c]
      w1 == [w EXCEPT !.cycles[c].pc = "settled",
                      !.cycles[c].pending.success = ok]
      type == IF ok THEN "task_complete" ELSE "task_error"
  IN IF ~ok /\ ~printable(Throws(cy.pending.task))
     THEN return(w, c, "rejected")
     ELSE [emit(w1, Event(type, TaskId(cy.pending.task), cy.pending.task))
             EXCEPT !.cycles[c].events = Append(@, <<type, cy.pending.task>>)]

\* execute() of the task may throw: a default task of the orchestrator only
\* where its body reaches an external call, another task when its author
\* made it so
mayThrow(o) ==
  IF o \in DefaultObjs
  THEN \E i \in 1 .. Len(body(o, orchestrator[1].dryRun)) :
         body(o, orchestrator[1].dryRun)[i] = "external"
  ELSE o \in throwers

\* task.execute() returns or throws
TaskSettles ==
  \E c \in Slots, ok \in BOOLEAN :
    /\ cycles[c].pc = "exec"
    /\ ~ok => mayThrow(cycles[c].pending.task)
    /\ Becomes(settle([Entry EXCEPT !.cycles[c].threw =
                         IF ok THEN @ ELSE @ \cup {cycles[c].pending.task}],
                      c, ok))

\* hasError = !result.success: a later success hides an earlier failure
noteLastError(hasError, result) == ~result.success

\* if (!result.success) hasError = true
noteError(hasError, result) == hasError \/ ~result.success

\* runTasks pushing each result to this.state.history as soon as it has it
resumePushesEarly(w, c) ==
  LET cy == w.cycles[c]
      w1 == [w EXCEPT !.cycles[c].results = Append(@, cy.pending),
                      !.cycles[c].hasError = noteError(@, cy.pending),
                      !.cycles[c].pending = NoResult,
                      !.state.history = Append(@, cy.pending)]
  IN loop(w1, c)

\* runTasks executing a task that failed a second time before it goes on
resumeRetries(w, c) ==
  LET cy == w.cycles[c]
      w1 == [w EXCEPT !.cycles[c].results = Append(@, cy.pending),
                      !.cycles[c].hasError = noteError(@, cy.pending),
                      !.cycles[c].pending = NoResult]
  IN IF /\ ~cy.pending.success
        /\ \A i \in 1 .. Len(cy.results) : cy.results[i].task # cy.pending.task
     THEN executeTask(w1, c, cy.idx)
     ELSE loop(w1, c)

\* runTasks after await this.executeTask(task): push the result, go on
resume(w, c) ==
  LET cy == w.cycles[c]
      w1 == [w EXCEPT !.cycles[c].results = Append(@, cy.pending),
                      !.cycles[c].hasError = noteError(@, cy.pending),
                      !.cycles[c].pending = NoResult]
  IN loop(w1, c)

CycleResumes ==
  \E c \in Slots :
    /\ cycles[c].pc = "settled"
    /\ Becomes(resume(Entry, c))

\* ------------------------------------------------------------- the registry
RECURSIVE indexOfId(_, _)
indexOfId(s, id) ==
  IF s = <<>> THEN 0
  ELSE IF TaskId(s[Len(s)]) = id /\ indexOfId(SubSeq(s, 1, Len(s) - 1), id) = 0
  THEN Len(s)
  ELSE indexOfId(SubSeq(s, 1, Len(s) - 1), id)

\* a registry kept as a list: every registration is appended
mapSetAppends(s, o) == Append(s, o)

\* Map.set: an existing key keeps its place, a new key goes last
mapSet(s, o) ==
  LET i == indexOfId(s, TaskId(o)) IN
  IF i = 0 THEN Append(s, o) ELSE [s EXCEPT ![i] = o]

\* Map.delete
mapDelete(s, id) ==
  LET i == indexOfId(s, id) IN
  IF i = 0 THEN s ELSE SubSeq(s, 1, i - 1) \o SubSeq(s, i + 1, Len(s))

registerTask(w, o) ==
  LET w1 == [w EXCEPT !.tasks = mapSet(@, o),
                      !.firstReg = IF TaskId(o) \in Range(@) THEN @
                                   ELSE Append(@, TaskId(o))]
  IN emit(w1, Event("task_start", TaskId(o), "none"))

unregisterTask(w, id) == [w EXCEPT !.tasks = mapDelete(@, id)]

setEnabled(w, id, v) ==
  LET i == indexOfId(w.tasks, id) IN
  IF i = 0 THEN w ELSE [w EXCEPT !.enabled[w.tasks[i]] = v]

enableTask(w, id) == setEnabled(w, id, TRUE)

disableTask(w, id) == setEnabled(w, id, FALSE)

clearHistory(w) == [w EXCEPT !.state.history = <<>>]

TaskIds == {TaskId(o) : o \in objs}

\* one more call of the caller
Called == [Entry EXCEPT !.calls = @ + 1]

Toggled == [Entry EXCEPT !.toggles = @ + 1]

RegisterTask ==
  /\ calls < limits.calls
  /\ \E o \in objs : Becomes(registerTask(Called, o))

UnregisterTask ==
  /\ calls < limits.calls
  /\ \E id \in TaskIds : Becomes(unregisterTask(Called, id))

EnableTask ==
  /\ toggles < limits.toggles
  /\ \E id \in TaskIds : Becomes(enableTask(Toggled, id))

DisableTask ==
  /\ toggles < limits.toggles
  /\ \E id \in TaskIds : Becomes(disableTask(Toggled, id))

ClearHistory ==
  /\ toggles < limits.toggles
  /\ Becomes(clearHistory(Toggled))

\* ------------------------------------------------------- the orchestrator
\* this.config of a TradingOrchestrator: its three feature flags
Features ==
  {"enablePositionMonitoring", "enableEntryScanning", "enableRollManagement"}

taskMap(feature) ==
  CASE feature = "enablePositionMonitoring" -> "position-monitor"
    [] feature = "enableEntryScanning" -> "entry-scanner"
    [] feature = "enableRollManagement" -> "roll-manager"

\* the constructor passing the schedule on as it got it
installNothing(schedule) == schedule

\* if (!config.schedule.marketHours) config.schedule.marketHours = ...
installMarketHours(schedule) ==
  IF ~schedule.marketHours THEN [schedule EXCEPT !.marketHours = TRUE]
  ELSE schedule

\* the default tasks the constructor registers, in registration order
registerDefaultTasks(flags) ==
  (IF flags.enablePositionMonitoring THEN <<"monitor">> ELSE <<>>)
    \o (IF flags.enableEntryScanning THEN <<"scanner">> ELSE <<>>)
    \o (IF flags.enableRollManagement THEN <<"roll">> ELSE <<>>)

\* setFeatureEnabled that removes the task of a feature switched off and
\* leaves the flag of the task alone
setFeatureEnabledUnregisters(w, feature, v) ==
  LET w1 == [w EXCEPT !.orchestrator[1].config[feature] = v]
  IN IF v THEN enableTask(w1, taskMap(feature))
     ELSE unregisterTask(w1, taskMap(feature))

setFeatureEnabled(w, feature, v) ==
  LET w1 == [w EXCEPT !.orchestrator[1].config[feature] = v]
  IN IF v THEN enableTask(w1, taskMap(feature))
     ELSE disableTask(w1, taskMap(feature))

\* one more setFeatureEnabled call of the caller
Switched == [Entry EXCEPT !.orchestrator[1].calls = @ + 1]

SetFeatureEnabled ==
  /\ orchestrator # <<>>
  /\ orchestrator[1].calls < limits.features
  /\ \E feature \in Features, v \in BOOLEAN :
       Becomes(setFeatureEnabled(Switched, feature, v))

\* time passes: the market opens or closes
ClockAdvances ==
  /\ config.marketHours
  /\ Becomes([Entry EXCEPT !.marketOpen = ~@])

\* ------------------------------------------------- on(), off() and emit()
\* The handlers a caller may subscribe, and what each does when it is called.
Handlers == {"log", "bad", "once", "adder"}

\* the handler throws as soon as it is called
throws(h) == h = "bad"

\* the calls the handler makes on the scheduler while it handles an event:
\* "once" unsubscribes itself, "adder" subscribes "log"
callsOf(h) ==
  CASE h = "once" -> <<[op |-> "off", handler |-> "once"]>>
    [] h = "adder" -> <<[op |-> "on", handler |-> "log"]>>
    [] OTHER -> <<>>

\* this.eventHandlers.push(handler)
on(hs, h) == Append(hs, h)

\* this.eventHandlers.indexOf(handler)
indexOf(hs, h) ==
  IF \E i \in 1 .. Len(hs) : hs[i] = h
  THEN Min({i \in 1 .. Len(hs) : hs[i] = h}) ELSE 0

\* indexOf, and splice(index, 1) when the handler is found
off(hs, h) ==
  LET i == indexOf(hs, h) IN
  IF i = 0 THEN hs ELSE SubSeq(hs, 1, i - 1) \o SubSeq(hs, i + 1, Len(hs))

\* the array after the calls cs of a handler
RECURSIVE called(_, _)
called(hs, cs) ==
  IF cs = <<>> THEN hs
  ELSE called(IF cs[1].op = "on" THEN on(hs, cs[1].handler)
              ELSE off(hs, cs[1].handler), Tail(cs))

\* for (const handler of this.eventHandlers) from array position i: the
\* iterator reads the array as it is when it reaches the position; an
\* exception of the handler is caught and the loop goes on
RECURSIVE deliver(_, _, _)
deliver(hs, i, ds) ==
  IF i > Len(hs) THEN [handlers |-> hs, delivered |-> ds]
  ELSE LET after == IF throws(hs[i]) THEN hs  \* caught, logged
                    ELSE called(hs, callsOf(hs[i]))
       IN deliver(after, i + 1, Append(ds, hs[i]))

\* emit(event)
emitTo(hs) == deliver(hs, 1, <<>>)

NoHandlers == eventHandlers = <<>> /\ subscribed = <<>> /\ delivered = <<>>

On ==
  /\ Len(eventHandlers) < MaxHandlers
  /\ \E h \in Handlers : eventHandlers' = on(eventHandlers, h)
  /\ UNCHANGED <<subscribed, delivered, schedulerVars, hoursVars, snapshotVars>>

Off ==
  /\ \E h \in Handlers : eventHandlers' = off(eventHandlers, h)
  /\ UNCHANGED <<subscribed, delivered, schedulerVars, hoursVars, snapshotVars>>

\* an operation of the scheduler emits an event
Emit ==
  /\ Len(emitTo(eventHandlers).handlers) <= MaxHandlers
  /\ subscribed' = eventHandlers
  /\ eventHandlers' = emitTo(eventHandlers).handlers
  /\ delivered' = emitTo(eventHandlers).delivered
  /\ UNCHANGED <<schedulerVars, hoursVars, snapshotVars>>

\* --------------------------------------------- getState() and getHistory()
\* this.state.history is a reference to an array; the model keeps the
\* arrays in a heap.  Of a snapshot the caller holds the model keeps the
\* address of its array of results (ref), the copied fields of this.state
\* when the snapshot is a state (fields), and what the snapshot holds if only
\* its holder changes it (own).
Addresses == 1 .. MaxArrays

\* new Array: the next address, with the content given
newArray(content) ==
  /\ allocated < MaxArrays
  /\ allocated' = allocated + 1
  /\ heap' = [heap EXCEPT ![allocated + 1] = content]

\* return { ...this.state }: every field copied, history as the reference
GetState ==
  /\ Len(snapshots) < MaxSnapshots
  /\ snapshots' = Append(snapshots, [kind |-> "state", ref |-> historyRef,
                                      fields |-> [state EXCEPT !.history = <<>>],
                                      own |-> heap[historyRef],
                                      asked |-> <<>>,
                                      from |-> heap[historyRef],
                                      returned |-> heap[historyRef]])
  /\ UNCHANGED <<heap, allocated, historyRef, schedulerVars, handlerVars,
                 hoursVars>>

\* history.slice(-limit)
sliceLast(h, limit) ==
  IF limit >= Len(h) THEN h ELSE SubSeq(h, Len(h) - limit + 1, Len(h))

\* the limit argument of getHistory: absent, or a number
Limit == {<<>>, <<0>>, <<1>>, <<2>>}

\* getHistory(limit?): [...this.state.history], sliced when limit is truthy.
\* The spread array is dropped when the slice is returned; the model creates
\* the returned array only.
GetHistory ==
  \E limit \in Limit :
    LET history == heap[historyRef]
        result == IF limit # <<>> /\ limit[1] # 0
                  THEN sliceLast(history, limit[1]) ELSE history
    IN /\ Len(snapshots) < MaxSnapshots
       /\ newArray(result)
       /\ snapshots' = Append(snapshots, [kind |-> "history",
                                           ref |-> allocated + 1,
                                           fields |-> <<>>, own |-> result,
                                           asked |-> limit,
                                           from |-> history,
                                           returned |-> result])
       /\ UNCHANGED <<historyRef, schedulerVars, handlerVars, hoursVars>>

\* the caller's own entry
Forged == [task |-> "forged", success |-> FALSE]

\* snapshot.history.push(entry) or array.push(entry) by the caller
CallerPushes ==
  \E i \in 1 .. Len(snapshots) :
    /\ Len(heap[snapshots[i].ref]) < MaxEntries
    /\ heap' = [heap EXCEPT ![snapshots[i].ref] = Append(@, Forged)]
    /\ snapshots' = [snapshots EXCEPT ![i].own = Append(@, Forged)]
    /\ UNCHANGED <<allocated, historyRef, schedulerVars, handlerVars, hoursVars>>

\* snapshot.history.pop() or array.pop() by the caller
CallerPops ==
  \E i \in 1 .. Len(snapshots) :
    /\ heap[snapshots[i].ref] # <<>>
    /\ snapshots[i].own # <<>>
    /\ heap' = [heap EXCEPT ![snapshots[i].ref] = SubSeq(@, 1, Len(@) - 1)]
    /\ snapshots' = [snapshots EXCEPT ![i].own = SubSeq(@, 1, Len(@) - 1)]
    /\ UNCHANGED <<allocated, historyRef, schedulerVars, handlerVars, hoursVars>>

\* the results of a cycle of one task
CycleResults == {<<[task |-> "T1", success |-> ok]>> : ok \in BOOLEAN}

\* runTasks from "Update state" on, for a cycle whose tasks have settled:
\* totalRuns++, history.push(...results) in place, the slice to a new array
\* when the history is longer than 100, and the error count.  The circuit
\* breaker's threshold is not reached within MaxCycles cycles.
CycleUpdatesState ==
  \E results \in CycleResults :
    LET pushed == heap[historyRef] \o results IN
    /\ state.totalRuns < MaxCycles
    /\ Len(pushed) <= MaxEntries
    /\ ~shouldStop(trackErrors(state.consecutiveErrors, failed(results) # {}))
    /\ state' = [state EXCEPT
                   !.totalRuns = @ + 1,
                   !.history = trimHistory(@ \o results),
                   !.consecutiveErrors = trackErrors(@, failed(results) # {})]
    /\ IF Len(pushed) > HistoryLimit
       THEN /\ newArray(trimHistory(pushed))
            /\ historyRef' = allocated + 1
       ELSE /\ heap' = [heap EXCEPT ![historyRef] = pushed]
            /\ UNCHANGED <<allocated, historyRef>>
    /\ UNCHANGED <<config, intervalId, leaked, tasks, enabled, cycles,
                   marketOpen, objs, throwers, limits, calls, toggles, emitted,
                   ended, begun, before, errorEvents, tripped, streak, firstReg,
                   orchestrator, snapshots, handlerVars, hoursVars>>

\* clearHistory(): this.state.history = [], a new array
ClearsHistory ==
  /\ newArray(<<>>)
  /\ historyRef' = allocated + 1
  /\ state' = [state EXCEPT !.history = <<>>]
  /\ UNCHANGED <<config, intervalId, leaked, tasks, enabled, cycles,
                 marketOpen, objs, throwers, limits, calls, toggles, emitted,
                 ended, begun, before, errorEvents, tripped, streak, firstReg,
                 orchestrator, snapshots, handlerVars, hoursVars>>

\* ------------------------------------------------------------ market hours
\* Strings are sequences of characters.  Digits of a number, most
\* significant first: String(n) for n >= 0.
Digit == <<"0", "1", "2", "3", "4", "5", "6", "7", "8", "9">>

RECURSIVE String(_)
String(n) ==
  IF n < 10 THEN <<Digit[n + 1]>> ELSE Append(String(n \div 10), Digit[(n % 10) + 1])

\* str.padStart(2, "0")
padStart(str) == IF Len(str) < 2 THEN <<"0">> \o str ELSE str

digitValue(ch) == CHOOSE d \in 0 .. 9 : Digit[d + 1] = ch

\* Number(str) for a string of decimal digits
RECURSIVE Number(_)
Number(str) ==
  IF str = <<>> THEN 0
  ELSE 10 * Number(SubSeq(str, 1, Len(str) - 1)) + digitValue(str[Len(str)])

\* str.split(sep): the pieces between the separators
RECURSIVE split(_, _)
split(str, sep) ==
  IF \A i \in 1 .. Len(str) : str[i] # sep THEN <<str>>
  ELSE LET i == Min({j \in 1 .. Len(str) : str[j] = sep})
       IN <<SubSeq(str, 1, i - 1)>> \o split(SubSeq(str, i + 1, Len(str)), sep)

\* str.split(":").map(Number)
splitNumbers(str) ==
  LET parts == split(str, ":") IN [i \in 1 .. Len(parts) |-> Number(parts[i])]

\* A Date in local time: year, month (1 .. 12), day, hours, minutes; seconds
\* and milliseconds are not read by isMarketOpen and are set to 0 by
\* getNextOpenTime.
leapYear(y) == y % 4 = 0 /\ (y % 100 # 0 \/ y % 400 = 0)

daysInMonth(y, m) ==
  IF m = 2 THEN (IF leapYear(y) THEN 29 ELSE 28)
  ELSE IF m \in {4, 6, 9, 11} THEN 30 ELSE 31

\* the days from Sunday 2024-12-01 to the date (dates from 2024-12-01 on)
RECURSIVE dayNumber(_)
dayNumber(d) ==
  IF d.year = 2024 /\ d.month = 12 THEN d.day - 1
  ELSE LET y == IF d.month = 1 THEN d.year - 1 ELSE d.year
           m == IF d.month = 1 THEN 12 ELSE d.month - 1
       IN dayNumber([d EXCEPT !.year = y, !.month = m, !.day = 1])
            + daysInMonth(y, m) + d.day - 1

\* date.getDay(): 0 = Sunday
getDay(d) == dayNumber(d) % 7

\* date.setDate(date.getDate() + 1)
addDay(d) ==
  IF d.day < daysInMonth(d.year, d.month) THEN [d EXCEPT !.day = @ + 1]
  ELSE IF d.month < 12 THEN [d EXCEPT !.month = @ + 1, !.day = 1]
  ELSE [d EXCEPT !.year = @ + 1, !.month = 1, !.day = 1]

\* date.setHours(h, m, 0, 0)
setHours(d, h, m) == [d EXCEPT !.hours = h, !.minutes = m]

\* array.includes(x)
includes(array, x) == \E i \in 1 .. Len(array) : array[i] = x

getDayName(day) ==
  <<"Sunday", "Monday", "Tuesday", "Wednesday", "Thursday", "Friday",
    "Saturday">>[day + 1]

\* `${year}-${month}-${day}` with month and day padded to two digits
formatDate(d) ==
  String(d.year) \o <<"-">> \o padStart(String(d.month)) \o <<"-">>
    \o padStart(String(d.day))

\* config.holidays?.includes(dateStr): an absent list is <<>> here, a
\* present one <<list>>
isHoliday(cfg, d) ==
  cfg.holidays # <<>> /\ includes(cfg.holidays[1], formatDate(d))

\* while (!config.openDays.includes(next.getDay())) next.setDate(...)
RECURSIVE nextOpenDay(_, _)
nextOpenDay(cfg, next) ==
  IF includes(cfg.openDays, getDay(next)) THEN next
  ELSE nextOpenDay(cfg, addDay(next))

\* while (config.holidays?.includes(formatDate(next))) { ... }
RECURSIVE skipHolidays(_, _)
skipHolidays(cfg, next) ==
  IF isHoliday(cfg, next)
  THEN skipHolidays(cfg, nextOpenDay(cfg, addDay(next)))
  ELSE next

\* getNextOpenTime from today instead of tomorrow
getNextOpenTimeToday(cfg, from) ==
  LET open == splitNumbers(cfg.openTime)
  IN skipHolidays(cfg, nextOpenDay(cfg, setHours(from, open[1], open[2])))

getNextOpenTime(cfg, from) ==
  LET open == splitNumbers(cfg.openTime)
      next == setHours(addDay(from), open[1], open[2])
  IN skipHolidays(cfg, nextOpenDay(cfg, next))

getNextCloseTime(cfg, from) ==
  LET close == splitNumbers(cfg.closeTime)
  IN setHours(from, close[1], close[2])

\* x ?? 0 for an optional number: <<>> when absent, <<x>> when present
orZero(x) == IF x = <<>> THEN 0 ELSE x[1]

effectiveOpenMinutes(cfg) ==
  LET open == splitNumbers(cfg.openTime)
  IN open[1] * 60 + open[2] + orZero(cfg.graceAfterOpen)

effectiveCloseMinutes(cfg) ==
  LET close == splitNumbers(cfg.closeTime)
  IN close[1] * 60 + close[2] - orZero(cfg.graceBeforeClose)

\* currentTime.getHours() * 60 + currentTime.getMinutes()
currentMinutes(t) == t.hours * 60 + t.minutes

\* the close boundary taken as still open
closedAfterStrict(cfg, t) == currentMinutes(t) > effectiveCloseMinutes(cfg)

\* currentMinutes >= effectiveCloseMinutes
closedAfter(cfg, t) == currentMinutes(t) >= effectiveCloseMinutes(cfg)

\* the holiday check made before the weekday check
closedWhyHolidayFirst(cfg, t) ==
  IF isHoliday(cfg, t) THEN "holiday"
  ELSE IF ~includes(cfg.openDays, getDay(t)) THEN "weekday"
  ELSE IF currentMinutes(t) < effectiveOpenMinutes(cfg) THEN "before"
  ELSE IF closedAfter(cfg, t) THEN "after"
  ELSE "open"

\* which return statement of isMarketOpen is reached
closedWhy(cfg, t) ==
  IF ~includes(cfg.openDays, getDay(t)) THEN "weekday"
  ELSE IF isHoliday(cfg, t) THEN "holiday"
  ELSE IF currentMinutes(t) < effectiveOpenMinutes(cfg) THEN "before"
  ELSE IF closedAfter(cfg, t) THEN "after"
  ELSE "open"

\* The closedReason template strings: the fixed text is kept as one word,
\* the interpolated value as it is.
closedReason(cfg, t) ==
  CASE closedWhy(cfg, t) = "weekday" ->
         <<"Market closed on", getDayName(getDay(t))>>
    [] closedWhy(cfg, t) = "holiday" ->
         <<"Market closed for holiday", formatDate(t)>>
    [] closedWhy(cfg, t) = "before" ->
         <<"Before market open (opens at", cfg.openTime>>
    [] closedWhy(cfg, t) = "after" ->
         <<"After market close (closed at", cfg.closeTime>>

\* An absent field of MarketStatus is <<>>, a present one <<value>>.
isMarketOpen(cfg, t) ==
  IF closedWhy(cfg, t) = "open"
  THEN [isOpen |-> TRUE, currentTime |-> t, closedReason |-> <<>>,
        nextOpenTime |-> <<>>,
        nextCloseTime |-> <<getNextCloseTime(cfg, t)>>]
  ELSE [isOpen |-> FALSE, currentTime |-> t,
        closedReason |-> <<closedReason(cfg, t)>>,
        nextOpenTime |-> <<getNextOpenTime(cfg, t)>>,
        nextCloseTime |-> <<>>]

\* ------------------------------------------------------------ specification
Config(respect, hours, onStart, maxErr) ==
  [respectMarketHours |-> respect, marketHours |-> hours,
   runOnStart |-> onStart, maxConsecutiveErrors |-> maxErr]

Limits(c, f, k, t) ==
  [cycles |-> c, inflight |-> f, calls |-> k, toggles |-> t, features |-> 0]

\* this.state after the constructor.  Of lastRunTime and nextRunTime the
\* model keeps whether they are set, not the instants.
InitState ==
  [isRunning |-> FALSE, totalRuns |-> 0, consecutiveErrors |-> 0,
   history |-> <<>>, lastRunTime |-> FALSE, nextRunTime |-> FALSE]

RECURSIVE ids(_)
ids(s) == IF s = <<>> THEN <<>> ELSE <<TaskId(s[1])>> \o ids(Tail(s))

\* A scheduler after its constructor and the registerTask calls that built
\* the registry reg, with nothing run yet.
BuiltAt(cfgs, os, th, reg, lim, st, open) ==
  /\ config \in cfgs
  /\ objs = os
  /\ throwers = th
  /\ limits = lim
  /\ tasks = reg
  /\ firstReg = ids(reg)
  /\ state = st
  /\ calls = 0
  /\ toggles = 0
  /\ intervalId = FALSE
  /\ leaked = FALSE
  /\ enabled = [o \in AllObjs |-> TRUE]
  /\ cycles = [c \in Slots |-> IdleCycle]
  /\ marketOpen \in open
  /\ emitted = <<>>
  /\ ended = [IdleCycle EXCEPT !.pc = "none"]
  /\ begun = "none"
  /\ before = [state |-> st, tripped |-> FALSE, tasks |-> reg,
               enabled |-> [o \in AllObjs |-> TRUE]]
  /\ errorEvents = 0
  /\ tripped = FALSE
  /\ streak = 0

\* a scheduler constructed while the market is open
Built(cfgs, os, th, reg, lim, st) == BuiltAt(cfgs, os, th, reg, lim, st, {TRUE})

\* Cycles that overlap, the circuit breaker, start() and stop().
RunConfigs ==
  {Config(FALSE, FALSE, TRUE, <<2>>), Config(TRUE, FALSE, FALSE, <<1>>)}

InitRun ==
  Built(RunConfigs, {"T1", "T2"}, {"T1"}, <<"T1", "T2">>,
        Limits(MaxCycles, MaxInFlight, 0, 0), InitState)

\* Market-hours gating.
InitGate ==
  Built({Config(TRUE, TRUE, TRUE, <<2>>)}, {"T1", "T2"}, {},
        <<"T1", "T2">>, Limits(2, 1, 0, 0), InitState)

\* The market closes while a cycle runs whose later task needs it open; market
\* hours that are configured but not respected; a threshold of 0.
InitGateLate ==
  Built({Config(TRUE, TRUE, FALSE, <<>>), Config(FALSE, TRUE, FALSE, <<0>>)},
        {"T2", "T3"}, {"T2", "T3"},
        <<"T2", "T3">>, Limits(1, 1, 0, 0), InitState)

\* A threshold of 0 and a single task that needs the market open: a cycle of
\* start() may reach its update, and the circuit breaker, inside start().
InitZero ==
  Built({Config(TRUE, TRUE, TRUE, <<0>>)}, {"T3"}, {}, <<"T3">>,
        Limits(MaxCycles, 1, 0, 0), InitState)

\* enableTask, disableTask and clearHistory while cycles run.
InitToggle ==
  Built({Config(FALSE, FALSE, FALSE, <<1>>)}, {"T1", "T2"}, {"T1"},
        <<"T1", "T2">>, Limits(2, 1, 0, MaxToggles), InitState)

\* From the constructor: the registry is built by the caller.
InitNew ==
  Built({Config(FALSE, FALSE, FALSE, <<>>)}, Objs, {}, <<>>,
        Limits(1, 1, 2, 0), InitState)

\* Three priorities, two of them equal, and a registry that changes.
InitOrder ==
  Built({Config(FALSE, FALSE, FALSE, <<>>)}, Objs, {"T2"}, <<"T2", "T3">>,
        Limits(1, 1, MaxRegistryCalls, 0), InitState)

\* A scheduler that has run for a while: FilledCycles cycles of two successful
\* tasks and one cycle of one, which leaves one free place in the history.
FilledCycles == HistoryLimit \div 2 - 1

FilledHistory ==
  [i \in 1 .. 2 * FilledCycles + 1 |->
     [task |-> IF i % 2 = 1 THEN "T1" ELSE "T2", success |-> TRUE]]

InitFilled ==
  Built({Config(FALSE, FALSE, TRUE, <<>>)}, {"T1", "T2"}, {"T1"},
        <<"T1", "T2">>,
        Limits(FilledCycles + 1 + MaxCycles, MaxInFlight, 0, 0),
        [isRunning |-> FALSE, totalRuns |-> FilledCycles + 1,
         consecutiveErrors |-> 0, history |-> FilledHistory,
         lastRunTime |-> TRUE, nextRunTime |-> TRUE])

\* A TradingOrchestrator after its constructor, which got a schedule with
\* respectMarketHours and without marketHours, while the market is open or
\* closed: the default tasks of the features switched on are registered, and
\* the caller holds one custom task, whose execute() may throw.  The
\* orchestrator with all features is in dry-run mode, the one without roll
\* management is not.
OrchestratorFlags ==
  {[enablePositionMonitoring |-> TRUE, enableEntryScanning |-> TRUE,
    enableRollManagement |-> roll] : roll \in BOOLEAN}

OrchestratorLimits ==
  [cycles |-> 2, inflight |-> 1, calls |-> 1, toggles |-> 0,
   features |-> MaxFeatureCalls]

Constructed ==
  \E flags \in OrchestratorFlags :
    /\ BuiltAt({installMarketHours(Config(TRUE, FALSE, FALSE, <<5>>))},
               {"custom"}, {"custom"}, registerDefaultTasks(flags),
               OrchestratorLimits, InitState, BOOLEAN)
    /\ orchestrator = <<[config |-> flags, calls |-> 0,
                         dryRun |-> flags.enableRollManagement]>>

\* a Scheduler used without a TradingOrchestrator
NoOrchestrator == orchestrator = <<>>

\* no snapshot was taken: the only array is the one of the constructor
NoSnapshots ==
  /\ heap = [a \in Addresses |-> <<>>]
  /\ allocated = 1
  /\ historyRef = 1
  /\ snapshots = <<>>

\* isMarketOpen has not been asked
NoStatus == marketHours = <<>> /\ currentTime = <<>> /\ status = <<>>

Init ==
  /\ \/ InitRun
     \/ InitGate
     \/ InitGateLate
     \/ InitZero
     \/ InitToggle
     \/ InitNew
     \/ InitOrder
     \/ InitFilled
  /\ NoOrchestrator
  /\ NoHandlers
  /\ NoStatus
  /\ NoSnapshots

Next ==
  \/ Start
  \/ Stop
  \/ Tick
  \/ RunNow
  \/ RunNowResolves
  \/ TaskSettles
  \/ CycleResumes
  \/ RegisterTask
  \/ UnregisterTask
  \/ EnableTask
  \/ DisableTask
  \/ ClearHistory
  \/ ClockAdvances

Spec == Init /\ [][Next]_vars

\* A scheduler whose caller subscribes and unsubscribes handlers while
\* events are emitted.
NextHandlers == On \/ Off \/ Emit

InitHandlers ==
  InitNew /\ NoOrchestrator /\ NoHandlers /\ NoStatus /\ NoSnapshots

SpecHandlers == InitHandlers /\ [][NextHandlers]_vars

\* A TradingOrchestrator whose caller switches features, registers its
\* custom task and starts the scheduler, whose timer runs the cycles.
InitOrchestrator == Constructed /\ NoHandlers /\ NoStatus /\ NoSnapshots

NextOrchestrator ==
  \/ SetFeatureEnabled
  \/ RegisterTask
  \/ Start
  \/ Tick
  \/ TaskSettles
  \/ CycleResumes

SpecOrchestrator == InitOrchestrator /\ [][NextOrchestrator]_vars

\* A scheduler whose caller takes snapshots of the state and of the history
\* and changes them, while cycles finish and the history is cleared.
NextSnapshots ==
  \/ GetState
  \/ GetHistory
  \/ CallerPushes
  \/ CallerPops
  \/ CycleUpdatesState
  \/ ClearsHistory

SpecSnapshots == InitHandlers /\ [][NextSnapshots]_vars

\* A scheduler with two tasks whose caller registers, replaces and unregisters
\* tasks between and during the cycles it runs with runNow().
InitRegistry ==
  /\ Built({Config(FALSE, FALSE, FALSE, <<>>)}, {"T1", "T1b", "T2"}, {},
           <<"T1", "T2">>,
           Limits(MaxCycles, 1, MaxRegistryCalls, 0), InitState)
  /\ NoOrchestrator
  /\ NoHandlers
  /\ NoStatus
  /\ NoSnapshots

NextRegistry ==
  \/ RegisterTask
  \/ UnregisterTask
  \/ RunNow
  \/ RunNowResolves
  \/ TaskSettles
  \/ CycleResumes

SpecRegistry == InitRegistry /\ [][NextRegistry]_vars

\* A scheduler that respects market hours, with two tasks that need the
\* market open and may throw, the second one a value that cannot be converted
\* to a string, run by the timer and by runNow() while the market opens and
\* closes.  Every execute() settles in the end, and the event loop runs every
\* continuation that is ready: the code after an await, and the caller of
\* runNow().
InitLive ==
  /\ Built({Config(TRUE, TRUE, FALSE, <<2>>)}, {"T1", "T3"}, {"T1", "T3"},
           <<"T1", "T3">>, Limits(2, 1, 0, 0), InitState)
  /\ NoOrchestrator
  /\ NoHandlers
  /\ NoStatus
  /\ NoSnapshots

NextLive ==
  \/ Start
  \/ Tick
  \/ RunNow
  \/ RunNowResolves
  \/ TaskSettles
  \/ CycleResumes
  \/ ClockAdvances

\* execute() of the task a cycle awaits has not settled
Awaiting(c) == cycles[c].pc = "exec"

\* a continuation is ready to run: the loop of a cycle after its await, or
\* the caller of runNow() after the cycle returned
Ready(c) ==
  \/ cycles[c].pc = "settled"
  \/ cycles[c].kind = "runNow" /\ awaited(cycles[c])

\* Weak fairness of TaskSettles, CycleResumes and RunNowResolves, each of
\* which is enabled exactly in the states named and leaves them at once.
SpecLive ==
  /\ InitLive
  /\ [][NextLive]_vars
  /\ \A c \in Slots : []<>(~Awaiting(c))
  /\ \A c \in Slots : []<>(~Ready(c))

\* isMarketOpen asked once, for a configuration and a time around the turn
\* of the year 2024/2025.
RECURSIVE daysFrom(_, _)
daysFrom(d, n) == IF n = 0 THEN {} ELSE {d} \cup daysFrom(addDay(d), n - 1)

Days ==
  daysFrom([year |-> 2024, month |-> 12, day |-> 27, hours |-> 0, minutes |-> 0],
           MaxDays)

Times ==
  {setHours(d, h, m) : d \in Days, h \in {8, 9, 15, 16}, m \in {0, 29, 30, 44, 45}}

\* "2025-01-01", "2025-01-03" and "2025-01-06"
NewYear == <<"2", "0", "2", "5", "-", "0", "1", "-", "0", "1">>
Friday3 == <<"2", "0", "2", "5", "-", "0", "1", "-", "0", "3">>
Monday6 == <<"2", "0", "2", "5", "-", "0", "1", "-", "0", "6">>

MarketHoursConfigs ==
  [openTime : {<<"0", "9", ":", "3", "0">>},
   closeTime : {<<"1", "6", ":", "0", "0">>},
   openDays : {<<1, 2, 3, 4, 5>>, <<3>>, <<6, 0>>},
   holidays : {<<>>, <<<<NewYear>>>>, <<<<NewYear, Friday3, Monday6>>>>},
   graceAfterOpen : {<<>>, <<15>>},
   graceBeforeClose : {<<>>, <<15>>}]

InitHours ==
  /\ InitNew
  /\ NoOrchestrator
  /\ NoSnapshots
  /\ NoHandlers
  /\ marketHours \in MarketHoursConfigs
  /\ currentTime \in Times
  /\ status = <<>>

IsMarketOpen ==
  /\ status = <<>>
  /\ status' = <<isMarketOpen(marketHours, currentTime)>>
  /\ UNCHANGED <<marketHours, currentTime, schedulerVars, handlerVars,
                 snapshotVars>>

\* isMarketOpen(config, status.nextOpenTime), asked by a caller who was told
\* closed and when the market opens next
AsksAtNextOpenTime ==
  /\ Len(status) = 1
  /\ ~status[1].isOpen
  /\ status[1].nextOpenTime # <<>>
  /\ status' = Append(status, isMarketOpen(marketHours, status[1].nextOpenTime[1]))
  /\ UNCHANGED <<marketHours, currentTime, schedulerVars, handlerVars,
                 snapshotVars>>

NextHours == IsMarketOpen \/ AsksAtNextOpenTime

SpecHours == InitHours /\ [][NextHours]_vars

\* ------------------------------------------------------------------ claims
types(evs) == [i \in 1 .. Len(evs) |-> evs[i].type]

Emitted(type) == \E i \in 1 .. Len(emitted) : emitted[i].type = type

\* the task executions the last operation began (executeTask's task_start
\* carries the task name, registerTask's does not)
Started ==
  {emitted[i].taskName : i \in {j \in 1 .. Len(emitted) :
      emitted[j].type = "task_start" /\ emitted[j].taskName # "none"}}

\* C1: the Scheduler never begins executing a task whose enabled flag is
\* false at the moment its execution begins, also when the flag is cleared
\* while a cycle is in flight.
C1_NeverStartsDisabled == \A o \in Started : enabled[o]

CycleDone == ended.pc = "returned" /\ ended.why = "done"

\* a cycle was skipped in the last operation
CycleSkipped ==
  ended.pc = "returned" /\ ended.why \in {"market_closed", "no_tasks"}

\* C3: for maxConsecutiveErrors >= 1 the automatic stop() and the `error`
\* event happen only at the end of a cycle with a failed task that brings the
\* run of consecutive failing cycles to at least maxConsecutiveErrors.
C3_BreakerOnlyOnFailingStreak ==
  maxErrors >= 1 /\ (Emitted("error") \/ (Emitted("stop") /\ ended.pc # "none")) =>
    /\ CycleDone
    /\ failed(ended.results) # {}
    /\ streak >= maxErrors
    /\ Emitted("error")

\* the breaker fired at the end of the second failing cycle in a row
C3_Witness ==
  /\ maxErrors = 2 /\ CycleDone /\ streak = 2
  /\ types(emitted) = <<"stop", "error">>

\* C4: a started scheduler whose cycles all fail: when the Nth cycle ends
\* (N = maxConsecutiveErrors >= 1) isRunning is false, exactly one `error`
\* event has been emitted, after the `stop` event of the automatic stop, and
\* no `error` event was emitted before.
C4_StopsAfterNFailingCycles ==
  maxErrors >= 1 =>
    /\ state.totalRuns < maxErrors => errorEvents = 0
    /\ CycleDone /\ before.state.isRunning /\ state.totalRuns = maxErrors
         /\ streak = maxErrors =>
           /\ ~state.isRunning
           /\ errorEvents = 1
           /\ types(emitted) = <<"stop", "error">>

\* the second of two failing cycles of a started scheduler ended
C4_Witness ==
  /\ maxErrors = 2 /\ CycleDone /\ before.state.isRunning
  /\ state.totalRuns = 2 /\ streak = 2 /\ errorEvents = 1

C6_TotalRuns ==
  /\ state.totalRuns = before.state.totalRuns + (IF CycleDone THEN 1 ELSE 0)
  /\ CycleDone => ended.sel # <<>> /\ (Gating => ended.gateOpen)
  /\ begun # "none" =>
       /\ Gating /\ ~ended.gateOpen => CycleSkipped
       /\ (\A i \in 1 .. Len(tasks) : ~enabled[tasks[i]]) => CycleSkipped

\* a cycle was skipped for the closed market after a cycle that counted
C6_Witness ==
  CycleSkipped /\ ended.why = "market_closed" /\ state.totalRuns = 1

\* the last n entries of a sequence
last(s, n) == SubSeq(s, Len(s) - n + 1, Len(s))

\* C7: state.history never holds more than 100 entries, and a cycle's append
\* leaves the most recently appended entries, at most 100, in append order:
\* the oldest ones are dropped.
C7_HistoryBounded ==
  /\ Len(state.history) <= HistoryLimit
  /\ CycleDone =>
       LET all == before.state.history \o ended.results
       IN state.history =
            last(all, IF Len(all) > HistoryLimit THEN HistoryLimit ELSE Len(all))

\* the append of a cycle went over the limit
C7_Witness ==
  /\ CycleDone
  /\ Len(before.state.history) + Len(ended.results) > HistoryLimit
  /\ Len(state.history) = HistoryLimit

\* the tasks of a sequence of results
resultTasks(results) == [i \in 1 .. Len(results) |-> results[i].task]

\* the place of x in a sequence without repetitions, 0 when absent
place(s, x) == IF \E i \in 1 .. Len(s) : s[i] = x
               THEN CHOOSE i \in 1 .. Len(s) : s[i] = x ELSE 0

RECURSIVE without(_, _)
without(s, S) ==
  IF s = <<>> THEN <<>>
  ELSE IF s[1] \in S THEN without(Tail(s), S)
  ELSE <<s[1]>> \o without(Tail(s), S)

\* the cycles in flight and the cycle that returned in the last operation
Cycles ==
  {cycles[c] : c \in {d \in Slots : cycles[d].pc \in {"exec", "settled"}}}
    \cup (IF ended.pc = "returned" THEN {ended} ELSE {})

\* the tasks a cycle started so far, in the order of their task_start events
startedBy(cy) ==
  resultTasks(cy.results)
    \o (IF cy.pending.task = "none" THEN <<>> ELSE <<cy.pending.task>>)

\* tasks start in the order of the array and results are pushed in that
\* order; a finished cycle appended its results, as pushed, to the history
InArrayOrder(cy) ==
  /\ startedBy(cy) = without(SubSeq(cy.sel, 1, cy.idx), cy.skipped)
  /\ cy.why = "done" /\ Len(cy.results) <= HistoryLimit =>
       last(state.history, Len(cy.results)) = cy.results

\* the array is in non-increasing order of (priority ?? 0)
ByPriority(cy) ==
  \A i, j \in 1 .. Len(cy.sel) :
    i < j => PriorityOrZero(cy.sel[i]) >= PriorityOrZero(cy.sel[j])

\* tasks of equal priority are in the order ord gives to their ids
TiesBy(cy, ord) ==
  \A i, j \in 1 .. Len(cy.sel) :
    i < j /\ PriorityOrZero(cy.sel[i]) = PriorityOrZero(cy.sel[j]) =>
      place(ord, TaskId(cy.sel[i])) < place(ord, TaskId(cy.sel[j]))

\* C8 as claimed: the tasks of a cycle are executed, and their results
\* appended to history, in non-increasing order of priority, tasks of equal
\* priority in the order in which their ids were first registered.
C8_TiesByFirstRegistration ==
  \A cy \in Cycles : InArrayOrder(cy) /\ ByPriority(cy) /\ TiesBy(cy, firstReg)

\* C8 as amended: the tasks of a cycle are executed, and their results
\* appended to history, in non-increasing order of priority, tasks of equal
\* priority in the order the registry had their ids in when the cycle
\* selected its tasks, where an id unregistered and registered again is last.
C8_TiesByRegistryOrder ==
  \A cy \in Cycles : InArrayOrder(cy) /\ ByPriority(cy) /\ TiesBy(cy, ids(cy.order))

\* a cycle ran three tasks, two of equal priority, after one of those two was
\* unregistered and registered again
C8_Witness ==
  /\ CycleDone
  /\ resultTasks(ended.results) = <<"T1", "T3", "T2">>
  /\ firstReg = <<"B", "C", "A">>

\* C9: the promise of runNow() resolves only after runTasks returned: every
\* task selected for the cycle was executed or skipped by the per-task market
\* check, and the update of totalRuns, history and consecutiveErrors, which a
\* cycle with selected tasks makes, was applied.
C9_RunNowResolvesAfterCycle ==
  ended.pc = "resolved" =>
    /\ ended.why \in {"market_closed", "no_tasks", "done"}
    /\ ended.left = 0
    /\ ended.why = "done" <=> ended.updated

\* runNow() resolved after a cycle that executed tasks
C9_Witness ==
  ended.pc = "resolved" /\ ended.why = "done" /\ ended.updated
    /\ state.totalRuns = before.state.totalRuns /\ state.totalRuns >= 1

\* a cycle in which execute() threw returned in the last operation
ThrewAndReturned == ended.pc = "returned" /\ ended.threw # {}

\* C10: a task whose execute() throws makes neither runNow() reject nor a
\* cycle abort: the failure is exactly one task_error event and one result
\* with success = false among the cycle's results, and the cycle goes on
\* through its remaining tasks to its update.
C10_FailureAbsorbed ==
  /\ Emitted("task_error") => Len(emitted) = 1 /\ ended.pc = "none"
  /\ ended.pc # "rejected"
  /\ ThrewAndReturned =>
       /\ CycleDone /\ ended.updated /\ ended.left = 0
       /\ {ended.results[i].task : i \in failed(ended.results)} = ended.threw
       /\ Cardinality(failed(ended.results)) = Cardinality(ended.threw)

\* how many times h occurs in a sequence
count(s, h) == Cardinality({i \in 1 .. Len(s) : s[i] = h})

\* C11: an emitted event is delivered exactly once, in subscription order,
\* to every handler subscribed when the emit began, whatever the handlers do
\* during the delivery (throw, call on() or off()).
C11_DeliveredToAllSubscribed ==
  /\ \A h \in Range(subscribed) : count(delivered, h) >= count(subscribed, h)
  /\ Len(delivered) >= Len(subscribed) =>
       SubSeq(delivered, 1, Len(subscribed)) = subscribed

\* the events of the last operation after the `start` event of start()
sinceStart ==
  IF begun = "start" THEN Tail(types(emitted)) ELSE types(emitted)

\* C12: a cycle skipped because the market is closed (with respectMarketHours
\* and a marketHours config) or because no registered task is enabled leaves
\* totalRuns, consecutiveErrors, history, isRunning and the registry as they
\* were and starts no task; it emits exactly one market_closed event in the
\* first case and no event in the second.
C12_SkippedCycleChangesNothing ==
  CycleSkipped =>
    /\ state.totalRuns = before.state.totalRuns
    /\ state.consecutiveErrors = before.state.consecutiveErrors
    /\ state.history = before.state.history
    /\ state.isRunning = (begun = "start" \/ before.state.isRunning)
    /\ tasks = before.tasks /\ enabled = before.enabled
    /\ Started = {}
    /\ sinceStart = IF ended.why = "market_closed" THEN <<"market_closed">>
                    ELSE <<>>
    /\ ended.why = "market_closed" => Gating /\ ~ended.gateOpen
    /\ ended.why = "no_tasks" => \A i \in 1 .. Len(tasks) : ~enabled[tasks[i]]

\* start() with runOnStart began a cycle that the closed market skipped,
\* after a cycle that had run tasks
C12_Witness ==
  /\ CycleSkipped /\ ended.why = "market_closed" /\ begun = "start"
  /\ state.totalRuns = 1 /\ state.history # <<>>

\* the registered, enabled tasks that do not require the market open, when
\* the last operation began
anytimeTasks ==
  {o \in Range(before.tasks) : before.enabled[o] /\ ~RequiresMarketOpen(o)}

\* C13: a registered, enabled task with requiresMarketOpen = false runs in
\* every cycle of its scheduler, also in a cycle that occurs while the market
\* is closed and respectMarketHours is true: every cycle that begins takes
\* the task into the array of tasks it executes.
C13_RunsAnytime ==
  begun # "none" =>
    \A o \in anytimeTasks : \E cy \in Cycles : o \in Range(cy.sel)

\* C14 (its conclusion): after any sequence of start() and stop() calls at
\* most one repeating timer is armed, and none that this.intervalId does not
\* name.
C14_AtMostOneTimer == ~leaked

\* C15 (its first part): after stop() ran while the scheduler was running, no
\* repeating tick is left armed and no timer tick begins a cycle until
\* start() is called: while isRunning is false no timer is armed, and a tick
\* begins a cycle only in a running scheduler.
C15_NoTickWhileStopped ==
  /\ ~state.isRunning => ~intervalId /\ ~leaked
  /\ begun = "timer" => before.state.isRunning

\* ------------------------------------------------------------ market hours
\* What the claims say of one answer of isMarketOpen, stated on the numbers
\* the configuration's strings denote.
asked == status # <<>>

\* "HH:MM" as minutes after midnight
minutesOf(hhmm) == Number(SubSeq(hhmm, 1, 2)) * 60 + Number(SubSeq(hhmm, 4, 5))

grace(x) == IF x = <<>> THEN 0 ELSE x[1]

\* a "YYYY-MM-DD" string names the calendar day of d
names(str, d) ==
  /\ Len(str) = 10
  /\ Number(SubSeq(str, 1, 4)) = d.year
  /\ Number(SubSeq(str, 6, 7)) = d.month
  /\ Number(SubSeq(str, 9, 10)) = d.day

holidayOn(d) ==
  /\ marketHours.holidays # <<>>
  /\ \E i \in 1 .. Len(marketHours.holidays[1]) : names(marketHours.holidays[1][i], d)

openDayOn(d) == getDay(d) \in Range(marketHours.openDays)

minuteOfDay == currentTime.hours * 60 + currentTime.minutes

openFrom == minutesOf(marketHours.openTime) + grace(marketHours.graceAfterOpen)

openUntil == minutesOf(marketHours.closeTime) - grace(marketHours.graceBeforeClose)

\* C16: isMarketOpen answers open exactly when the weekday of now is in
\* openDays, the local date of now is not in holidays, and the minute of the
\* day m satisfies open + graceAfterOpen <= m < close - graceBeforeClose.
C16_OpenIff ==
  asked =>
    (status[1].isOpen <=>
       /\ openDayOn(currentTime)
       /\ ~holidayOn(currentTime)
       /\ openFrom <= minuteOfDay
       /\ minuteOfDay < openUntil)

\* open at the first open minute of a day between two holidays, with both
\* grace periods set
C16_Witness ==
  /\ asked
  /\ status[1].isOpen
  /\ marketHours.graceAfterOpen = <<15>>
  /\ marketHours.graceBeforeClose = <<15>>
  /\ minuteOfDay = openFrom
  /\ holidayOn(addDay(currentTime))

closed == asked /\ ~status[1].isOpen

nextOpen == status[1].nextOpenTime[1]

eligible(d) == openDayOn(d) /\ ~holidayOn(d)

\* the calendar days after the day of d, two weeks of them
daysAfter(d) == daysFrom(addDay(d), 14)

\* C17: for a configuration with non-empty openDays and a time now at which
\* the market is closed, nextOpenTime is strictly after now, on a weekday in
\* openDays, on a date not in holidays, on the earliest such day after the
\* calendar day of now, and at the time of day openTime.
C17_NextOpenIsEarliestEligibleDay ==
  closed =>
    /\ \/ dayNumber(nextOpen) > dayNumber(currentTime)
       \/ /\ dayNumber(nextOpen) = dayNumber(currentTime)
          /\ nextOpen.hours * 60 + nextOpen.minutes > minuteOfDay
    /\ eligible(nextOpen)
    /\ \E d \in daysAfter(currentTime) :
         /\ setHours(d, 0, 0) = setHours(nextOpen, 0, 0)
         /\ \A e \in daysAfter(currentTime) :
              dayNumber(e) < dayNumber(d) => ~eligible(e)
    /\ nextOpen.hours * 60 + nextOpen.minutes = minutesOf(marketHours.openTime)

\* closed on Thursday 2025-01-02 after hours; Friday and Monday are
\* holidays, so the next open time is on Tuesday 2025-01-07
C17_Witness ==
  /\ closed
  /\ status[1].closedReason[1][1] = "After market close (closed at"
  /\ getDay(currentTime) = 4
  /\ holidayOn(addDay(currentTime))
  /\ dayNumber(nextOpen) = dayNumber(currentTime) + 5
  /\ getDay(nextOpen) = 2

beforeOpen ==
  /\ closed
  /\ status[1].closedReason[1][1] = "Before market open (opens at"

\* C18: when isMarketOpen reports closed with the before-open reason on an
\* open, non-holiday day and now is earlier than today's openTime, the
\* nextOpenTime is today's date at openTime.
C18_BeforeOpenNextIsToday ==
  (/\ beforeOpen
   /\ eligible(currentTime)
   /\ minuteOfDay < minutesOf(marketHours.openTime))
    => /\ dayNumber(nextOpen) = dayNumber(currentTime)
       /\ nextOpen.hours * 60 + nextOpen.minutes = minutesOf(marketHours.openTime)

weekdayName(d) ==
  CASE getDay(d) = 0 -> "Sunday" [] getDay(d) = 1 -> "Monday"
    [] getDay(d) = 2 -> "Tuesday" [] getDay(d) = 3 -> "Wednesday"
    [] getDay(d) = 4 -> "Thursday" [] getDay(d) = 5 -> "Friday"
    [] getDay(d) = 6 -> "Saturday"

reason == status[1].closedReason[1]

\* C19: the closed reason is decided in the order weekday, holiday,
\* before-open, after-close: a weekday outside openDays gets the reason
\* naming that weekday even on a holiday, a holiday on an open weekday gets
\* the reason naming the date whatever the time of day, only otherwise a
\* time-of-day reason is given, and an open status carries no closedReason.
C19_ReasonOrder ==
  asked =>
    IF ~openDayOn(currentTime)
    THEN closed /\ reason = <<"Market closed on", weekdayName(currentTime)>>
    ELSE IF holidayOn(currentTime)
    THEN /\ closed
         /\ reason[1] = "Market closed for holiday"
         /\ names(reason[2], currentTime)
    ELSE IF status[1].isOpen
    THEN status[1].closedReason = <<>>
    ELSE IF minuteOfDay < openFrom
    THEN reason = <<"Before market open (opens at", marketHours.openTime>>
    ELSE reason = <<"After market close (closed at", marketHours.closeTime>>

\* a holiday on a weekday outside openDays, asked during market hours
C19_Witness ==
  /\ closed
  /\ holidayOn(currentTime)
  /\ ~openDayOn(currentTime)
  /\ reason = <<"Market closed on", "Friday">>
  /\ openFrom <= minuteOfDay
  /\ minuteOfDay < openUntil

\* ------------------------------------------------------------ orchestrator
flag(feature) == orchestrator[1].config[feature]

\* the default task object of a feature
taskOf(feature) == CHOOSE o \in OrchestratorObjs : TaskId(o) = taskMap(feature)

\* the feature was switched on when the orchestrator was constructed
constructedWith(feature) == taskMap(feature) \in Range(firstReg)

enabledTasksNow == {o \in Range(tasks) : enabled[o]}

\* C20: for a feature whose flag was true at construction the mapped task
\* stays in the registry and its enabled field follows the flag set by
\* setFeatureEnabled, so a cycle begun afterwards that the market check lets
\* pass takes the task iff the flag is true, and a finished cycle has
\* executed exactly the tasks it took and the market check did not skip,
\* without any registerTask call; the custom task stays enabled and the other
\* default tasks follow their own flags.
C20_FeatureSwitch ==
  orchestrator # <<>> =>
    /\ \A feature \in Features :
         constructedWith(feature) =>
           /\ taskOf(feature) \in Range(tasks)
           /\ enabled[taskOf(feature)] = flag(feature)
    /\ enabled["custom"]
    /\ (begun # "none" /\ ended.why # "market_closed")
         => \E cy \in Cycles : Range(cy.sel) = enabledTasksNow
    /\ CycleDone
         => Range(resultTasks(ended.results)) = Range(ended.sel) \ ended.skipped

\* position monitoring was switched off before the first cycle, which ran
\* without the task, and on again before the second, which starts it
C20_Witness ==
  /\ orchestrator # <<>>
  /\ orchestrator[1].calls = 2
  /\ flag("enablePositionMonitoring")
  /\ state.totalRuns = 1
  /\ \A i \in 1 .. Len(state.history) : state.history[i].task # "monitor"
  /\ \E i \in 1 .. Len(state.history) : state.history[i].task = "custom"
  /\ begun # "none"
  /\ "monitor" \in Started

\* the place of a default task in the order monitor, roll manager, scanner
rank(o) == CASE o = "monitor" -> 1 [] o = "roll" -> 2 [] o = "scanner" -> 3

\* C21: in every orchestrator cycle the default tasks that execute do so in
\* the order position-monitor, roll-manager, entry-scanner, although they
\* are registered in the order position-monitor, entry-scanner, roll-manager.
C21_DefaultTasksByPriority ==
  orchestrator # <<>> =>
    \A cy \in Cycles :
      \A i, j \in 1 .. Len(startedBy(cy)) :
        (/\ i < j
         /\ startedBy(cy)[i] \in DefaultObjs
         /\ startedBy(cy)[j] \in DefaultObjs)
          => rank(startedBy(cy)[i]) < rank(startedBy(cy)[j])

\* a finished cycle of an orchestrator with all features ran the three
\* default tasks, the roll manager before the scanner registered before it
C21_Witness ==
  /\ orchestrator # <<>>
  /\ tasks = <<"monitor", "scanner", "roll">>
  /\ CycleDone
  /\ resultTasks(ended.results) = <<"monitor", "roll", "scanner">>

dryRunOnlyDefaults ==
  /\ orchestrator # <<>>
  /\ orchestrator[1].dryRun
  /\ Range(firstReg) \subseteq {TaskId(o) : o \in DefaultObjs}

\* C22: in dry-run mode a default task body makes no external call and every
\* execution of it succeeds; so for a dry-run orchestrator with only its
\* default tasks and maxConsecutiveErrors >= 1 every history entry has
\* success = true, consecutiveErrors is always 0 and the circuit breaker
\* never stops the scheduler.
C22_DryRunAlwaysSucceeds ==
  (orchestrator # <<>> /\ orchestrator[1].dryRun) =>
    /\ \A o \in DefaultObjs : \A i \in 1 .. Len(body(o, TRUE)) :
         body(o, TRUE)[i] # "external"
    /\ \A i \in 1 .. Len(state.history) :
         state.history[i].task \in DefaultObjs => state.history[i].success
    /\ \A c \in Slots : cycles[c].threw \cap DefaultObjs = {}
    /\ dryRunOnlyDefaults =>
         /\ maxErrors >= 1
         /\ \A i \in 1 .. Len(state.history) : state.history[i].success
         /\ state.consecutiveErrors = 0
         /\ ~tripped
         /\ errorEvents = 0

\* two finished cycles of a dry-run orchestrator with its three default
\* tasks only
C22_Witness ==
  /\ dryRunOnlyDefaults
  /\ state.totalRuns = 2
  /\ Len(state.history) = 6
  /\ state.isRunning

\* C23: an orchestrator constructed with respectMarketHours = true and no
\* marketHours has market hours installed, so none of its three default
\* tasks begins executing when the oracle reports the market closed.
C23_DefaultTasksGated ==
  (orchestrator # <<>> /\ config.respectMarketHours) =>
    /\ config.marketHours
    /\ \A o \in Started \cap DefaultObjs : marketOpen

\* the market closed between the check of the cycle and the checks of the
\* tasks: the cycle skipped the three default tasks
C23_Witness ==
  /\ orchestrator # <<>>
  /\ CycleDone
  /\ ended.gateOpen
  /\ ~marketOpen
  /\ ended.skipped = DefaultObjs
  /\ Started = {}

\* ---------------------------------------------------------------- snapshots
\* C24: the values getState() and getHistory() return are copies: what the
\* caller does to a snapshot does not change the scheduler's history (what a
\* later getState()/getHistory() returns is what the scheduler wrote), and no
\* later operation of the scheduler changes a snapshot already returned.
C24_SnapshotsAreCopies ==
  /\ heap[historyRef] = state.history
  /\ \A i \in 1 .. Len(snapshots) : heap[snapshots[i].ref] = snapshots[i].own

\* ------------------------------------------------------------- task events
\* every cycle the state still knows: in flight, or ended in the last
\* operation
KnownCycles ==
  {cycles[c] : c \in {d \in Slots : cycles[d].pc \in {"exec", "settled"}}}
    \cup (IF ended.pc = "none" THEN {} ELSE {ended})

\* the events of a cycle pair up: a task_start, then the task_complete or
\* task_error of the same task, then the next task_start
Paired(evs) ==
  \A i \in 1 .. Len(evs) :
    IF i % 2 = 1 THEN evs[i][1] = "task_start"
    ELSE /\ evs[i][1] \in {"task_complete", "task_error"}
         /\ evs[i][2] = evs[i - 1][2]

\* C25: within one cycle at most one task is executing at any time: the
\* task_start of the next task is emitted only after the task_complete or
\* task_error of the previous task of that cycle, also while tasks are
\* suspended and other operations run in between.
C25_OneTaskAtATime ==
  \A cy \in KnownCycles :
    /\ Paired(cy.events)
    /\ cy.pc = "exec" => Len(cy.events) % 2 = 1
    /\ Len(cy.events) % 2 = 1 => cy.pc = "exec" \/ cy.why = "rejected"

\* a finished cycle ran two tasks one after the other while another cycle
\* was in flight
C25_Witness ==
  /\ CycleDone
  /\ Len(ended.events) = 4
  /\ ended.events[2][1] = "task_error"
  /\ \E c \in Slots : cycles[c].pc = "exec"

\* ------------------------------------------------------- overlapping cycles
Executing == {c \in Slots : cycles[c].pc = "exec"}

\* C26: there is no single-flight guard.  A cycle that begins is never put
\* off because another cycle is in flight: it returns at once only on the
\* closed market, on an empty array or when every task was skipped, and
\* otherwise starts its first task in the same step; so two cycles, and two
\* executions of the same task, are in flight at once.
C26_NoSingleFlightGuard ==
  begun # "none" =>
    \/ Started # {}
    \/ /\ ended.pc = "returned"
       /\ ended.why \in {"market_closed", "no_tasks", "done"}
       /\ ended.why = "done" => ended.skipped = Range(ended.sel)

\* a runNow() cycle has just started a task that a cycle of the timer is
\* still executing
C26_Witness ==
  /\ begun = "runNow"
  /\ \E c, d \in Executing :
       /\ c # d
       /\ cycles[c].kind = "timer"
       /\ cycles[d].kind = "runNow"
       /\ cycles[c].pending.task = cycles[d].pending.task
       /\ cycles[d].pending.task \in Started

\* the events registerTask emitted in the last operation
Registrations ==
  {i \in 1 .. Len(emitted) :
     emitted[i].type = "task_start" /\ emitted[i].taskName = "none"}

\* the tasks of a registry whose id is not id
others(registry, id) == {p \in Range(registry) : TaskId(p) # id}

\* C27: the registry holds at most one task per id: registerTask with an id
\* already registered replaces the task that had it, unregisterTask(id)
\* removes the task, and a cycle executes tasks of the registry it found when
\* it started only, so never a task replaced or unregistered before.
C27_OneTaskPerId ==
  /\ \A i, j \in 1 .. Len(tasks) : TaskId(tasks[i]) = TaskId(tasks[j]) => i = j
  /\ \A i \in Registrations :
       \E o \in objs :
         /\ TaskId(o) = emitted[i].taskId
         /\ Range(tasks) = others(before.tasks, TaskId(o)) \cup {o}
  /\ tasks # before.tasks /\ Registrations = {} =>
       \E id \in TaskIds : Range(tasks) = others(before.tasks, id)
  /\ \A cy \in KnownCycles :
       /\ Range(cy.sel) \subseteq Range(cy.order)
       /\ Range(startedBy(cy)) \subseteq Range(cy.sel)
  /\ begun # "none" =>
       /\ Started \subseteq Range(tasks)
       /\ \E cy \in KnownCycles : cy.why = "market_closed" \/ cy.order = tasks

\* after a cycle that executed T1 and T2, T1 was replaced by a task of its id
\* and T2 unregistered: the next cycle starts the replacement
C27_Witness ==
  /\ begun = "runNow"
  /\ resultTasks(state.history) = <<"T1", "T2">>
  /\ tasks = <<"T1b">>
  /\ Started = {"T1b"}

\* the task_start events of the last operation
TaskStarts == {i \in 1 .. Len(emitted) : emitted[i].type = "task_start"}

\* C28: a task_start event is emitted only when the execution of a task
\* begins, one event per execution started, and in every cycle each task_start
\* is followed by the task_complete or task_error of the same task before the
\* next task_start.
C28_TaskStartMeansExecution ==
  /\ \A i \in TaskStarts :
       \E c \in Executing :
         /\ TaskId(cycles[c].pending.task) = emitted[i].taskId
         /\ cycles[c].events[Len(cycles[c].events)] =
              <<"task_start", cycles[c].pending.task>>
  /\ Cardinality(TaskStarts) <= 1
  /\ \A cy \in KnownCycles :
       /\ Paired(cy.events)
       /\ Len(cy.events) % 2 = 1 => cy.pc = "exec"

\* the positions of the task_start events of task o among a cycle's events
startsOf(cy, o) ==
  {i \in 1 .. Len(cy.events) : cy.events[i] = <<"task_start", o>>}

C30_NeverStartsWhenClosed ==
  /\ Gating => \A o \in Started : RequiresMarketOpen(o) => marketOpen
  /\ \A cy \in KnownCycles :
       /\ cy.skipped # {} => Gating
       /\ \A o \in cy.skipped :
            /\ RequiresMarketOpen(o)
            /\ cy.pending.task # o
            /\ \A i \in 1 .. Len(cy.results) : cy.results[i].task # o
            /\ \A i \in 1 .. Len(cy.events) : cy.events[i][2] # o
  /\ \A i \in 1 .. Len(emitted) : emitted[i].taskName \notin ended.skipped
  /\ CycleDone /\ Len(ended.results) <= HistoryLimit =>
       \A i \in 1 .. Len(ended.results) :
         state.history[Len(state.history) - Len(ended.results) + i].task
           \notin ended.skipped

\* the market, open when the cycle began, closed before the turn of the
\* cycle's second task, which requires it open: the cycle skipped that task
\* and is done with the result of its first task only
C30_Witness ==
  /\ Gating
  /\ CycleDone
  /\ ended.gateOpen
  /\ ~marketOpen
  /\ Len(ended.results) = 1
  /\ Len(ended.sel) = 2
  /\ ended.skipped = {ended.sel[2]}
  /\ Len(state.history) = 1
  /\ Len(emitted) = 0

\* a cycle that reached its update executed or skipped every task it had
\* selected and counted itself, whether the scheduler was running or not
RanToItsEnd ==
  CycleDone =>
    /\ unfinished(ended) = {}
    /\ ended.updated
    /\ state.totalRuns = before.state.totalRuns + 1
    /\ Len(ended.results) <= HistoryLimit =>
         last(state.history, Len(ended.results)) = ended.results
    /\ state.consecutiveErrors =
         (IF failed(ended.results) = {} THEN 0
          ELSE before.state.consecutiveErrors + 1)
    /\ state.consecutiveErrors >= maxErrors => Emitted("error")

\* C31: stop() does not cancel a cycle in flight: the cycle still executes
\* the tasks it selected and makes its update of totalRuns, history and
\* consecutiveErrors while isRunning is false, with the error event when the
\* threshold is reached; what stop() prevents is that a later tick of the
\* timer begins a cycle.
C31_StopLeavesCycleRunning ==
  /\ RanToItsEnd
  /\ begun = "timer" => before.state.isRunning

\* a cycle of the timer made its update, and the breaker's error event, after
\* stop() was called while it ran
C31_CycleOutlivesStop ==
  /\ CycleDone
  /\ ended.kind = "timer"
  /\ ~before.state.isRunning
  /\ Len(ended.results) = 2
  /\ Emitted("error")
  /\ ~leaked

\* the last k entries of a history, oldest first
lastEntries(h, k) == SubSeq(h, Len(h) - k + 1, Len(h))

\* C32: getHistory(limit) with limit >= 0 returns the last min(limit, n) of
\* the n history entries, oldest first, and getHistory() returns all n.
C32_LastMinLimitEntries ==
  \A i \in 1 .. Len(snapshots) :
    snapshots[i].kind = "history" =>
      LET n == Len(snapshots[i].from)
          limit == snapshots[i].asked
      IN snapshots[i].returned =
           IF limit = <<>> THEN snapshots[i].from
           ELSE lastEntries(snapshots[i].from, Min({limit[1], n}))

\* a runTasks() invocation is in flight in slot c
Running(c) == cycles[c].pc \in {"exec", "settled"}

\* every cycle in flight finishes
Terminates == \A c \in Slots : Running(c) ~> ~Running(c)

\* while execute() of a task has not settled, its cycle has made no update
\* and has started none of the tasks after it
Stalled ==
  \A c \in Executing :
    /\ ~cycles[c].updated
    /\ startedBy(cycles[c]) =
         without(SubSeq(cycles[c].sel, 1, cycles[c].idx), cycles[c].skipped)
    /\ cycles[c].pending.task = cycles[c].sel[cycles[c].idx]

\* every cycle finishes and the promise of every runNow() is settled in the
\* end, resolved or rejected
PromiseSettles ==
  /\ Terminates
  /\ \A c \in Slots :
       (Running(c) /\ cycles[c].kind = "runNow")
         ~> (ended.kind = "runNow" /\ ended.pc \in {"resolved", "rejected"})
  /\ []Stalled

\* C33: when every execute() settles, every cycle finishes and the promise
\* of runNow() resolves in the end: a cycle leaves flight only by returning
\* from its update, and the promise of runNow() is only ever resolved; while
\* an execute() has not settled its cycle is stalled: no update of totalRuns,
\* history or consecutiveErrors and none of its later tasks started.
C33_CyclesFinishAndResolve ==
  /\ ended.pc # "none" => ended.why \in {"market_closed", "no_tasks", "done"}
  /\ ended.kind = "runNow" => ended.pc \in {"none", "returned", "resolved"}
  /\ \A c \in Slots : Running(c) => Awaiting(c) \/ Ready(c)
  /\ Stalled

\* the cycle that made its update in the last operation had selected tasks
\* and skipped every one of them at the per-task market check
AllSkipped ==
  /\ CycleDone
  /\ ended.sel # <<>>
  /\ ended.skipped = Range(ended.sel)

\* C34: a cycle that passed the cycle-level market gate with at least one
\* enabled task and then skipped every selected task at the per-task check
\* executes no task and adds nothing to history, yet adds 1 to totalRuns and
\* sets consecutiveErrors to 0, whatever the streak was.
C34_AllSkippedCycleCounts ==
  AllSkipped =>
    /\ ended.gateOpen \/ ~Gating
    /\ ended.events = <<>>
    /\ ended.results = <<>>
    /\ Started = {}
    /\ state.history = before.state.history
    /\ state.totalRuns = before.state.totalRuns + 1
    /\ state.consecutiveErrors = 0

\* the second cycle skipped both its tasks after the first cycle had failed:
\* the streak of 1 is gone
C34_Witness ==
  /\ AllSkipped
  /\ before.state.consecutiveErrors = 1
  /\ state.consecutiveErrors = 0
  /\ state.totalRuns = 2
  /\ state.history # <<>>

\* the counters of this.state are what they were before the last operation
SameCounters ==
  /\ state.totalRuns = before.state.totalRuns
  /\ state.consecutiveErrors = before.state.consecutiveErrors

SameHistory == state.history = before.state.history

\* the last operation was stop() called by the caller while running
Stopped == Emitted("stop") /\ ended.pc = "none"

\* the last operation was clearHistory() on a history with entries
Cleared == before.state.history # <<>> /\ state.history = <<>>

\* a failing cycle that finds the count at the threshold stops the scheduler
\* again at once
FailingCycleStopsAgain ==
  /\ maxErrors >= 1
  /\ CycleDone
  /\ failed(ended.results) # {}
  /\ before.state.consecutiveErrors >= maxErrors
  => /\ Emitted("error")
     /\ ~state.isRunning
     /\ before.state.isRunning => Emitted("stop")

\* C35 as claimed: start(), stop() and clearHistory() leave totalRuns and
\* consecutiveErrors unchanged, start() and stop() leave history unchanged;
\* so a start() after the circuit breaker fired keeps consecutiveErrors and
\* the first failing cycle after it stops the scheduler again.
C35_StartStopClearKeepCounters ==
  /\ Emitted("start") => SameCounters /\ SameHistory
  /\ Stopped => SameCounters /\ SameHistory
  /\ Cleared => SameCounters
  /\ FailingCycleStopsAgain

\* C35 as amended: the same, except that the cycle start() begins when
\* runOnStart is set may reach its update before start() returns, when it
\* skips every task it selected at the per-task market check: totalRuns is
\* then 1 more and consecutiveErrors 0 after start(); history is unchanged.
C35_CountersKeptButForRunOnStart ==
  /\ Emitted("start") =>
       /\ SameHistory
       /\ ~AllSkipped => SameCounters
       /\ AllSkipped =>
            /\ config.runOnStart
            /\ ended.kind = "start"
            /\ state.totalRuns = before.state.totalRuns + 1
            /\ state.consecutiveErrors = 0
  /\ Stopped => SameCounters /\ SameHistory
  /\ Cleared => SameCounters
  /\ FailingCycleStopsAgain

\* after the circuit breaker fired and start() was called again, the next
\* failing cycle of the timer stopped the scheduler again
C35_Witness ==
  /\ maxErrors >= 1
  /\ CycleDone
  /\ ended.kind = "timer"
  /\ before.state.isRunning
  /\ before.state.consecutiveErrors >= maxErrors
  /\ Emitted("stop")
  /\ Emitted("error")

\* C36: between the operations of the scheduler a repeating timer is armed
\* if and only if state.isRunning is true, also after the circuit breaker
\* called stop() from a cycle.
C36_TimerArmedIffRunning == (intervalId \/ leaked) <=> state.isRunning

\* the tasks of a cycle's results are those of its task_start events, in
\* that order
InExecutionOrder(cy) ==
  /\ Len(cy.events) = 2 * Len(cy.results)
  /\ \A i \in 1 .. Len(cy.results) :
       cy.events[2 * i - 1] = <<"task_start", cy.results[i].task>>

\* C37: when cycles overlap, each cycle that completes appends its results
\* to history as one block, in the order it executed its tasks, in the one
\* step of its update, and history changes in no other step of a cycle;
\* every update adds exactly 1 to totalRuns and nothing else changes it, so
\* totalRuns counts the cycles that reached their update.
C37_UpdateIsOneStep ==
  /\ CycleDone =>
       /\ InExecutionOrder(ended)
       /\ state.totalRuns = before.state.totalRuns + 1
       /\ Len(before.state.history) + Len(ended.results) <= HistoryLimit =>
            state.history = before.state.history \o ended.results
       /\ Len(ended.results) <= HistoryLimit =>
            last(state.history, Len(ended.results)) = ended.results
  /\ ~CycleDone =>
       /\ state.totalRuns = before.state.totalRuns
       /\ SameHistory \/ state.history = <<>>

\* a cycle made its update while another cycle, begun at any time, is in
\* flight with a result of its own that is not in the history yet
C37_Witness ==
  /\ CycleDone
  /\ Len(ended.results) = 2
  /\ \E c \in Slots :
       /\ Running(c)
       /\ Len(cycles[c].results) = 1
       /\ last(state.history, 2) = ended.results

\* C38: at a time at which the market is closed, the nextOpenTime of the
\* status is a moment at which the market is open: isMarketOpen asked at
\* that moment answers open, also with a grace period after the open.
C38_NextOpenTimeIsOpen == Len(status) = 2 => status[2].isOpen

\* C39: after the construction of an orchestrator and after any
\* setFeatureEnabled calls, each feature flag of its config is true if and
\* only if the task mapped to it is registered and enabled in the scheduler,
\* also for a flag that was false at construction and set to true later.
C39_FlagIffTaskEnabled ==
  orchestrator # <<>> =>
    \A feature \in Features :
      flag(feature) <=>
        (taskOf(feature) \in Range(tasks) /\ enabled[taskOf(feature)])

====
